---- MODULE Spec2Model ----
(***************************************************************************)
(* Model of runtime/src/bank/execution_domain.rs: the DomainRegistry that  *)
(* tracks which accounts are in the Vote execution domain, the queue of    *)
(* pending domain transitions and the current epoch.                       *)
(*                                                                         *)
(* Pubkeys are opaque keys (strings).  The u64 epoch is modelled with a    *)
(* scaled-down width: the values 0..U64Max, where U64Max stands for        *)
(* u64::MAX and current_epoch + 1 overflows there.                         *)
(***************************************************************************)
EXTENDS Integers, Sequences, FiniteSets, TLC

\* ---------------------------------------------------------------- bounds
U64Max == 3             \* the largest epoch value (stands for u64::MAX)

\* ------------------------------------------------------------ data types
VoteProgramId == "vote_program"         \* solana_vote_program::id()
Accounts == {"a1", "a2"}                \* keys passed as `pubkey` / `account`
Pubkey == Accounts \cup {VoteProgramId} \* keys passed as `owner`
Epochs == 0..U64Max                     \* the values of a u64
ExecutionDomain == {"Vote", "User"}
NoKey == "none"                         \* "no account argument" in the call log

DomainTransition(account, from, to, epoch) ==
    [account |-> account, from_domain |-> from, to_domain |-> to,
     scheduled_epoch |-> epoch]

\* A DomainRegistry value.
DomainRegistry(v, q, e) ==
    [vote_domain_accounts |-> v, pending_transitions |-> q, current_epoch |-> e]

\* The DomainError values (only the fields of each kind that are set).
NoError == [kind |-> "none", account |-> NoKey, reason |-> ""]
InvalidDomainTransition(account, reason) ==
    [kind |-> "InvalidDomainTransition", account |-> account, reason |-> reason]
UnauthorizedDomainAccess(account) ==
    [kind |-> "UnauthorizedDomainAccess", account |-> account, reason |-> ""]

\* Callers that may be inside schedule_domain_transition at the same time
\* when nothing outside the registry serialises them.
Callers == {"t1", "t2"}

VARIABLES
    vote_domain_accounts,   \* HashSet<Pubkey>
    pending_transitions,    \* Vec<DomainTransition>
    current_epoch,          \* u64
    last,                   \* log of the last call: operation, arguments, result
    calls                   \* per caller: where it is inside a scheduling call

vars == <<vote_domain_accounts, pending_transitions, current_epoch, last, calls>>

\* The registry the three fields make up (`self`).
Self == DomainRegistry(vote_domain_accounts, pending_transitions, current_epoch)

\* ------------------------------------------------------------ classifier
\* A lookup that already reports Vote for an account with a transition to
\* Vote in the queue.
get_account_domain_PendingAware(self, pubkey) ==
    IF \/ pubkey \in self.vote_domain_accounts
       \/ \E i \in 1..Len(self.pending_transitions) :
             /\ self.pending_transitions[i].account = pubkey
             /\ self.pending_transitions[i].to_domain = "Vote"
    THEN "Vote" ELSE "User"

\* A test that needs both signals instead of either.
is_vote_account_Both(self, pubkey, owner) ==
    owner = VoteProgramId /\ pubkey \in self.vote_domain_accounts

get_account_domain(self, pubkey) ==
    IF pubkey \in self.vote_domain_accounts THEN "Vote" ELSE "User"

is_vote_account(self, pubkey, owner) ==
    owner = VoteProgramId \/ pubkey \in self.vote_domain_accounts

\* -------------------------------------------------------------- registry
\* DomainRegistry::new()
new == DomainRegistry({}, <<>>, 0)

\* An insertion that is skipped while a transition is pending for the key.
add_to_vote_domain_UnlessPending(self, pubkey) ==
    IF \E i \in 1..Len(self.pending_transitions) :
          self.pending_transitions[i].account = pubkey
    THEN self
    ELSE [self EXCEPT !.vote_domain_accounts = @ \cup {pubkey}]

\* An insertion that also cancels the key's pending transition.
add_to_vote_domain_Cancel(self, pubkey) ==
    [self EXCEPT !.vote_domain_accounts = @ \cup {pubkey},
                 !.pending_transitions =
                     SelectSeq(@, LAMBDA t : t.account # pubkey)]

\* add_to_vote_domain(&mut self, pubkey): the registry after the call.
add_to_vote_domain(self, pubkey) ==
    [self EXCEPT !.vote_domain_accounts = @ \cup {pubkey}]

\* A duplicate check that looks only at the most recently pushed transition.
AnyPending_LastOnly(q, account) ==
    Len(q) > 0 /\ q[Len(q)].account = account

\* self.pending_transitions.iter().any(|t| t.account == account)
AnyPending(q, account) ==
    \E i \in 1..Len(q) : q[i].account = account

\* self.current_epoch + 1 on a u64.  At u64::MAX the addition overflows: a
\* build with overflow checks panics, a build without them wraps to 0.
EpochPlusOne(e, overflow_checks) ==
    IF e < U64Max THEN [panic |-> FALSE, value |-> e + 1]
    ELSE IF overflow_checks THEN [panic |-> TRUE, value |-> 0]
    ELSE [panic |-> FALSE, value |-> (e + 1) % (U64Max + 1)]

\* An Err value of the wrong kind.
DuplicateError_Unauthorized(account) ==
    UnauthorizedDomainAccess(account)

\* The error schedule_domain_transition returns on a duplicate.
DuplicateError(account) ==
    InvalidDomainTransition(account, "Transition already scheduled for this epoch")

\* A duplicate check that also compares the requested target domain.
schedule_domain_transition_SameTarget(self, account, from, to, overflow_checks) ==
    IF \E i \in 1..Len(self.pending_transitions) :
          /\ self.pending_transitions[i].account = account
          /\ self.pending_transitions[i].to_domain = to
    THEN [self |-> self, result |-> "Err", error |-> DuplicateError(account)]
    ELSE LET next == EpochPlusOne(self.current_epoch, overflow_checks) IN
         IF next.panic
         THEN [self |-> self, result |-> "Panic", error |-> NoError]
         ELSE [self |-> [self EXCEPT !.pending_transitions =
                            Append(@, DomainTransition(account, from, to, next.value))],
               result |-> "Ok", error |-> NoError]

\* A scheduling call that applies the requested domain at once.
schedule_domain_transition_Eager(self, account, from, to, overflow_checks) ==
    IF AnyPending(self.pending_transitions, account)
    THEN [self |-> self, result |-> "Err", error |-> DuplicateError(account)]
    ELSE LET next == EpochPlusOne(self.current_epoch, overflow_checks) IN
         IF next.panic
         THEN [self |-> self, result |-> "Panic", error |-> NoError]
         ELSE [self |-> [self EXCEPT
                   !.pending_transitions =
                       Append(@, DomainTransition(account, from, to, next.value)),
                   !.vote_domain_accounts =
                       IF to = "Vote" THEN @ \cup {account} ELSE @ \ {account}],
               result |-> "Ok", error |-> NoError]

\* schedule_domain_transition(&mut self, account, from, to): the registry
\* after the call and what the call returns ("Ok", "Err" with the error
\* value, "Panic" for an overflow panic, which happens while the new record
\* is built, before the push).
schedule_domain_transition(self, account, from, to, overflow_checks) ==
    IF AnyPending(self.pending_transitions, account)
    THEN [self |-> self, result |-> "Err", error |-> DuplicateError(account)]
    ELSE LET next == EpochPlusOne(self.current_epoch, overflow_checks) IN
         IF next.panic
         THEN [self |-> self, result |-> "Panic", error |-> NoError]
         ELSE [self |-> [self EXCEPT !.pending_transitions =
                            Append(@, DomainTransition(account, from, to, next.value))],
               result |-> "Ok", error |-> NoError]

\* A closure that applies every transition whose epoch has been reached.
RetainClosure_Reached(v, transition, new_epoch) ==
    IF transition.scheduled_epoch <= new_epoch
    THEN [vote |-> IF transition.to_domain = "Vote"
                   THEN v \cup {transition.account}
                   ELSE v \ {transition.account},
          keep |-> FALSE]
    ELSE [vote |-> v, keep |-> TRUE]

\* A closure with the two match arms swapped.
RetainClosure_Swapped(v, transition, new_epoch) ==
    IF transition.scheduled_epoch = new_epoch
    THEN [vote |-> IF transition.to_domain = "Vote"
                   THEN v \ {transition.account}
                   ELSE v \cup {transition.account},
          keep |-> FALSE]
    ELSE [vote |-> v, keep |-> TRUE]

\* A closure that inserts the account whatever to_domain says.
RetainClosure_InsertAlways(v, transition, new_epoch) ==
    IF transition.scheduled_epoch = new_epoch
    THEN [vote |-> v \cup {transition.account}, keep |-> FALSE]
    ELSE [vote |-> v, keep |-> TRUE]

\* The retain closure of apply_epoch_transitions on one transition: the
\* membership set after it and whether the transition is kept.
RetainClosure(v, transition, new_epoch) ==
    IF transition.scheduled_epoch = new_epoch
    THEN [vote |-> IF transition.to_domain = "Vote"
                   THEN v \cup {transition.account}
                   ELSE v \ {transition.account},
          keep |-> FALSE]
    ELSE [vote |-> v, keep |-> TRUE]

\* Vec::retain: the closure runs on each element once, in order.
RECURSIVE Retain(_, _, _, _, _)
Retain(q, i, v, kept, new_epoch) ==
    IF i > Len(q) THEN [vote |-> v, kept |-> kept]
    ELSE LET r == RetainClosure(v, q[i], new_epoch) IN
         Retain(q, i + 1, r.vote,
                IF r.keep THEN Append(kept, q[i]) ELSE kept, new_epoch)

\* An epoch update that never moves the epoch backwards.
apply_epoch_transitions_Clamped(self, new_epoch) ==
    LET r == Retain(self.pending_transitions, 1, self.vote_domain_accounts,
                    <<>>, new_epoch) IN
    DomainRegistry(r.vote, r.kept,
                   IF new_epoch > self.current_epoch THEN new_epoch
                   ELSE self.current_epoch)

\* An epoch update made after the retain pass, whose closure compares with
\* self.current_epoch: the pass still sees the previous epoch.
apply_epoch_transitions_StaleEpoch(self, new_epoch) ==
    LET r == Retain(self.pending_transitions, 1, self.vote_domain_accounts,
                    <<>>, self.current_epoch) IN
    DomainRegistry(r.vote, r.kept, new_epoch)

\* apply_epoch_transitions(&mut self, new_epoch): the registry after the call.
apply_epoch_transitions(self, new_epoch) ==
    LET r == Retain(self.pending_transitions, 1, self.vote_domain_accounts,
                    <<>>, new_epoch) IN
    DomainRegistry(r.vote, r.kept, new_epoch)

\* --------------------------------------------------------------- actions
\* The call log: which operation ran last, with which arguments, what it
\* returned and how many pending transitions it removed.
Call(op, account, from, to, epoch, result, removed) ==
    [op |-> op, account |-> account, from |-> from, to |-> to,
     epoch |-> epoch, result |-> result, removed |-> removed,
     owner |-> NoKey, error |-> NoError]

\* A caller that is not inside a call.
Idle == [pc |-> "idle", account |-> NoKey, from |-> "User", to |-> "User", seen |-> 0]

SetSelf(self) ==
    /\ vote_domain_accounts' = self.vote_domain_accounts
    /\ pending_transitions' = self.pending_transitions
    /\ current_epoch' = self.current_epoch

Init ==
    /\ vote_domain_accounts = new.vote_domain_accounts
    /\ pending_transitions = new.pending_transitions
    /\ current_epoch = new.current_epoch
    /\ last = Call("new", NoKey, "User", "User", 0, "Ok", 0)
    /\ calls = [t \in Callers |-> Idle]

AddToVoteDomain(pubkey) ==
    /\ SetSelf(add_to_vote_domain(Self, pubkey))
    /\ last' = Call("add_to_vote_domain", pubkey, "User", "User", 0, "Ok", 0)

ScheduleDomainTransition(account, from, to, overflow_checks) ==
    LET r == schedule_domain_transition(Self, account, from, to, overflow_checks) IN
    /\ SetSelf(r.self)
    /\ last' = [Call("schedule_domain_transition", account, from, to, 0, r.result, 0)
                    EXCEPT !.error = r.error]

ApplyEpochTransitions(new_epoch) ==
    LET after == apply_epoch_transitions(Self, new_epoch) IN
    /\ SetSelf(after)
    /\ last' = Call("apply_epoch_transitions", NoKey, "User", "User", new_epoch, "Ok",
                    Len(pending_transitions) - Len(after.pending_transitions))

\* Serialised calls: each runs from start to end with no caller inside
\* another call.
Next ==
    \/ \E pubkey \in Accounts : AddToVoteDomain(pubkey) /\ UNCHANGED calls
    \/ \E account \in Accounts, from \in ExecutionDomain, to \in ExecutionDomain,
          overflow_checks \in BOOLEAN :
            ScheduleDomainTransition(account, from, to, overflow_checks)
              /\ UNCHANGED calls
    \/ \E new_epoch \in Epochs : ApplyEpochTransitions(new_epoch) /\ UNCHANGED calls

Spec == Init /\ [][Next]_vars

\* ------------------------------------------------------ reading the log
\* The step just taken is a call of `op` (the log is written by every call).
Called(op) == last'.op = op

\* The transitions of q scheduled for an epoch other than e, in q's order.
NotScheduledFor(q, e) == SelectSeq(q, LAMBDA t : t.scheduled_epoch # e)

\* Whether pubkey is in the membership set v.
Member(v, pubkey) == pubkey \in v

\* ----------------------------------------------------------------- C1
\* C1: in every reachable state the pending queue holds at most one
\* transition per account.
C1_AtMostOnePendingPerAccount ==
    \A i, j \in 1..Len(pending_transitions) :
        pending_transitions[i].account = pending_transitions[j].account => i = j

\* Two accounts have a transition pending and a further scheduling call for
\* one of them has just been rejected.
C1_Witness ==
    /\ Len(pending_transitions) = 2
    /\ last.op = "schedule_domain_transition"
    /\ last.result = "Err"

\* ----------------------------------------------------------------- C2
\* C2: a pending transition changes its account's membership only in an
\* apply_epoch_transitions(new_epoch) call with new_epoch equal to its
\* scheduled_epoch; a call with any other new_epoch leaves the transition in
\* the queue, unmodified and in the same relative order, and does not change
\* the membership of its account.
C2_OnlyExactEpochApplies ==
    [][ /\ \A i \in 1..Len(pending_transitions) :
             LET t == pending_transitions[i] IN
             (Member(vote_domain_accounts, t.account)
                  # Member(vote_domain_accounts', t.account))
             => \/ Called("add_to_vote_domain") /\ last'.account = t.account
                \/ Called("apply_epoch_transitions")
                      /\ last'.epoch = t.scheduled_epoch
        /\ Called("apply_epoch_transitions") =>
             /\ NotScheduledFor(pending_transitions', last'.epoch)
                    = NotScheduledFor(pending_transitions, last'.epoch)
             /\ \A i \in 1..Len(pending_transitions) :
                    LET t == pending_transitions[i] IN
                    t.scheduled_epoch # last'.epoch =>
                       /\ \E j \in 1..Len(pending_transitions') :
                              pending_transitions'[j] = t
                       /\ Member(vote_domain_accounts', t.account)
                              = Member(vote_domain_accounts, t.account)
      ]_vars

\* An apply call has just left two transitions in the queue: one whose epoch
\* was skipped past and one whose epoch is still ahead.
C2_Witness ==
    /\ last.op = "apply_epoch_transitions"
    /\ Len(pending_transitions) = 2
    /\ pending_transitions[1].scheduled_epoch < current_epoch
    /\ pending_transitions[2].scheduled_epoch > current_epoch

\* ----------------------------------------------------------------- C3
\* C3: after apply_epoch_transitions(new_epoch) the current epoch is
\* new_epoch; every transition that was pending for new_epoch has been
\* applied (account in the vote set iff to_domain is Vote) and is gone from
\* the queue; accounts without such a transition keep their membership.
C3_ApplyPostcondition ==
    [][ Called("apply_epoch_transitions") =>
          /\ current_epoch' = last'.epoch
          /\ \A i \in 1..Len(pending_transitions) :
                LET t == pending_transitions[i] IN
                t.scheduled_epoch = last'.epoch =>
                   /\ t.to_domain = "Vote" => t.account \in vote_domain_accounts'
                   /\ t.to_domain = "User" => t.account \notin vote_domain_accounts'
                   /\ \A j \in 1..Len(pending_transitions') :
                          pending_transitions'[j] # t
          /\ \A a \in Pubkey :
                (~ \E i \in 1..Len(pending_transitions) :
                      /\ pending_transitions[i].account = a
                      /\ pending_transitions[i].scheduled_epoch = last'.epoch)
                => (a \in vote_domain_accounts' <=> a \in vote_domain_accounts)
      ]_vars

\* An apply call has just applied and removed two transitions, one of which
\* left its account in the vote set and the other out of it.
C3_Witness ==
    /\ last.op = "apply_epoch_transitions"
    /\ last.removed = 2
    /\ pending_transitions = <<>>
    /\ Cardinality(vote_domain_accounts) = 1

\* ----------------------------------------------------------------- C4
\* C4: schedule_domain_transition returns Err(InvalidDomainTransition)
\* exactly when a transition is already pending for the account, and a
\* failing call changes neither the vote set, the queue nor the epoch.
C4_ErrIffAlreadyPending ==
    [][ Called("schedule_domain_transition") =>
          /\ last'.result = "Err" <=>
                \E i \in 1..Len(pending_transitions) :
                    pending_transitions[i].account = last'.account
          /\ last'.result = "Err" =>
                UNCHANGED <<vote_domain_accounts, pending_transitions, current_epoch>>
      ]_vars

\* A call has just been rejected although the pending transition of its
\* account differs from the request in epoch, from and to.
C4_Witness ==
    /\ last.op = "schedule_domain_transition"
    /\ last.result = "Err"
    /\ \E i \in 1..Len(pending_transitions) :
          /\ pending_transitions[i].account = last.account
          /\ pending_transitions[i].scheduled_epoch # (current_epoch + 1) % (U64Max + 1)
          /\ pending_transitions[i].from_domain # last.from
          /\ pending_transitions[i].to_domain # last.to

\* ----------------------------------------------------------------- C5
\* C5: a successful schedule_domain_transition(account, from, to) appends
\* exactly one record, DomainTransition{account, from, to, current_epoch + 1},
\* to the end of the queue and leaves the earlier records unchanged.
C5_AppendsNextEpochRecord ==
    [][ (Called("schedule_domain_transition") /\ last'.result = "Ok") =>
          pending_transitions' =
              Append(pending_transitions,
                     DomainTransition(last'.account, last'.from, last'.to,
                                      current_epoch + 1))
      ]_vars

\* ----------------------------------------------------------------- C6
\* C6: schedule_domain_transition, successful or not, changes neither the
\* vote set nor the current epoch: get_account_domain of every account is
\* the same before and after the call.
C6_ScheduleKeepsDomains ==
    [][ Called("schedule_domain_transition") =>
          /\ vote_domain_accounts' = vote_domain_accounts
          /\ current_epoch' = current_epoch
          /\ \A a \in Pubkey :
                get_account_domain(Self', a) = get_account_domain(Self, a)
      ]_vars

\* A transition to Vote has just been scheduled for an account that is
\* still in the User domain.
C6_Witness ==
    /\ last.op = "schedule_domain_transition"
    /\ last.result = "Ok"
    /\ last.to = "Vote"
    /\ get_account_domain(Self, last.account) = "User"

\* ----------------------------------------------------------------- C7
\* The account is in the User domain and, for every owner other than the
\* vote program, is not a vote account.
PlainUser(self, a) ==
    /\ get_account_domain(self, a) = "User"
    /\ \A owner \in Pubkey \ {VoteProgramId} : ~ is_vote_account(self, a, owner)

\* C7 as claimed: an account not owned by the vote program is a plain User
\* account in the new registry and stops being one only in an
\* add_to_vote_domain call for it (so an account never passed to
\* add_to_vote_domain is a plain User account in every reachable state).
C7_OnlyAddGrantsMembership ==
    /\ \A a \in Accounts : PlainUser(Self, a)
    /\ [][ \A a \in Accounts :
             (PlainUser(Self, a) /\ ~ PlainUser(Self', a)) =>
                (Called("add_to_vote_domain") /\ last'.account = a)
         ]_vars

\* C7 amended: an account not owned by the vote program is a plain User
\* account in the new registry and stops being one only in an
\* add_to_vote_domain call for it or in an apply_epoch_transitions(new_epoch)
\* call that finds a pending transition for it with to_domain = Vote and
\* scheduled_epoch = new_epoch.
C7_AddOrAppliedTransitionGrants ==
    /\ \A a \in Accounts : PlainUser(Self, a)
    /\ [][ \A a \in Accounts :
             (PlainUser(Self, a) /\ ~ PlainUser(Self', a)) =>
                \/ Called("add_to_vote_domain") /\ last'.account = a
                \/ /\ Called("apply_epoch_transitions")
                   /\ \E i \in 1..Len(pending_transitions) :
                         /\ pending_transitions[i].account = a
                         /\ pending_transitions[i].to_domain = "Vote"
                         /\ pending_transitions[i].scheduled_epoch = last'.epoch
         ]_vars

\* An apply call has just removed transitions and left one account a plain
\* User account (a transition to User was applied, or none for it) while
\* the other is in the vote set.
C7_Witness ==
    /\ last.op = "apply_epoch_transitions"
    /\ last.removed = 2
    /\ \E a \in Accounts : PlainUser(Self, a)
    /\ \E a \in Accounts : ~ PlainUser(Self, a)

\* ----------------------------------------------------------------- C8
\* C8 as claimed: the current epoch never decreases.
C8_EpochNeverDecreases ==
    [][ current_epoch' >= current_epoch ]_vars

\* C8 amended: the current epoch is changed only by apply_epoch_transitions,
\* which sets it to exactly the new_epoch it is passed, so it decreases only
\* in an apply_epoch_transitions call that passes a smaller epoch.
C8_EpochSetOnlyByApply ==
    [][ /\ Called("apply_epoch_transitions") => current_epoch' = last'.epoch
        /\ ~ Called("apply_epoch_transitions") => current_epoch' = current_epoch
        /\ current_epoch' < current_epoch =>
              (Called("apply_epoch_transitions") /\ last'.epoch < current_epoch)
      ]_vars

\* An apply call has just set the epoch to 0 although a transition in the
\* queue was scheduled when the epoch was at least 1.
C8_Witness ==
    /\ last.op = "apply_epoch_transitions"
    /\ current_epoch = 0
    /\ \E i \in 1..Len(pending_transitions) :
          pending_transitions[i].scheduled_epoch >= 2

\* ----------------------------------------------------------------- C9
\* C9: right after add_to_vote_domain(a), get_account_domain(a) is Vote,
\* whatever the epoch and whether or not a transition is pending for a; the
\* call never fails and a second call leaves the state unchanged.
C9_AddTakesEffectAtOnce ==
    /\ [](\A a \in Accounts : ENABLED AddToVoteDomain(a))
    /\ [][ Called("add_to_vote_domain") =>
             /\ last'.result = "Ok"
             /\ get_account_domain(Self', last'.account) = "Vote"
             /\ add_to_vote_domain(Self', last'.account) = Self'
         ]_vars

\* add_to_vote_domain has just been called, past epoch 0, for an account
\* that has a transition to User pending.
C9_Witness ==
    /\ last.op = "add_to_vote_domain"
    /\ current_epoch > 0
    /\ \E i \in 1..Len(pending_transitions) :
          /\ pending_transitions[i].account = last.account
          /\ pending_transitions[i].to_domain = "User"
    /\ get_account_domain(Self, last.account) = "Vote"

\* ---------------------------------------------------------------- C10
\* C10: add_to_vote_domain(a) leaves the queue and the epoch unchanged and
\* changes the membership of no account but a; every later
\* schedule_domain_transition call succeeds or fails as it would have.
C10_AddFrame ==
    [][ Called("add_to_vote_domain") =>
          /\ pending_transitions' = pending_transitions
          /\ current_epoch' = current_epoch
          /\ \A b \in Pubkey \ {last'.account} :
                (b \in vote_domain_accounts') = (b \in vote_domain_accounts)
          /\ \A b \in Accounts, from \in ExecutionDomain, to \in ExecutionDomain,
                overflow_checks \in BOOLEAN :
                schedule_domain_transition(Self', b, from, to, overflow_checks).result
                  = schedule_domain_transition(Self, b, from, to, overflow_checks).result
      ]_vars

\* add_to_vote_domain has just been called for an account with a pending
\* transition while the other account, also pending, is outside the vote set.
C10_Witness ==
    /\ last.op = "add_to_vote_domain"
    /\ Len(pending_transitions) = 2
    /\ vote_domain_accounts = {last.account}

\* --------------------------------------------------------------- lookups
\* get_account_domain(&self, pubkey): a read-only call; the log keeps what
\* it returned.
GetAccountDomain(pubkey) ==
    /\ UNCHANGED <<vote_domain_accounts, pending_transitions, current_epoch, calls>>
    /\ last' = Call("get_account_domain", pubkey, "User", "User", 0,
                    get_account_domain(Self, pubkey), 0)

\* is_vote_account(&self, pubkey, owner): a read-only call; the log keeps
\* the owner passed and the boolean returned.
IsVoteAccount(pubkey, owner) ==
    /\ UNCHANGED <<vote_domain_accounts, pending_transitions, current_epoch, calls>>
    /\ last' = [Call("is_vote_account", pubkey, "User", "User", 0,
                     IF is_vote_account(Self, pubkey, owner) THEN "true" ELSE "false",
                     0) EXCEPT !.owner = owner]

\* The serialised calls together with the two lookups.
NextLookup ==
    \/ Next
    \/ \E pubkey \in Accounts : GetAccountDomain(pubkey)
    \/ \E pubkey \in Accounts, owner \in Pubkey : IsVoteAccount(pubkey, owner)

SpecLookup == Init /\ [][NextLookup]_vars

\* ---------------------------------------------------------------- C11
\* C11: is_vote_account(a, owner) is true exactly when owner is the vote
\* program's id or a is in the vote set; so it is true for owner =
\* vote_program_id whatever a's membership, and for any other owner it is
\* true iff get_account_domain(a) is Vote.
C11_IsVoteAccountEitherSignal ==
    /\ [](\A a \in Accounts :
            /\ is_vote_account(Self, a, VoteProgramId)
            /\ \A owner \in Pubkey \ {VoteProgramId} :
                  is_vote_account(Self, a, owner)
                    <=> (get_account_domain(Self, a) = "Vote"))
    /\ [][ Called("is_vote_account") =>
             (last'.result = "true" <=>
                (last'.owner = VoteProgramId
                   \/ last'.account \in vote_domain_accounts))
         ]_vars

\* is_vote_account has just returned true for an account outside the vote
\* set because the owner passed is the vote program, while the other
\* account is in the vote set.
C11_Witness ==
    /\ last.op = "is_vote_account"
    /\ last.owner = VoteProgramId
    /\ last.account \notin vote_domain_accounts
    /\ vote_domain_accounts # {}
    /\ last.result = "true"

\* ---------------------------------------------------------------- C12
\* C12: get_account_domain(a) is Vote iff a is in the vote set and User
\* otherwise, whatever the queue and the epoch are; the two lookups change
\* no registry state; in a new registry (empty set, empty queue, epoch 0)
\* every account is User.
C12_DomainIsMembership ==
    /\ vote_domain_accounts = {} /\ pending_transitions = <<>> /\ current_epoch = 0
    /\ \A a \in Pubkey : get_account_domain(Self, a) = "User"
    /\ [](\A a \in Pubkey :
            /\ get_account_domain(Self, a) = "Vote" <=> a \in vote_domain_accounts
            /\ get_account_domain(Self, a) = "User" <=> a \notin vote_domain_accounts
            /\ \A e \in Epochs, q \in {<<>>, pending_transitions} :
                  get_account_domain(DomainRegistry(vote_domain_accounts, q, e), a)
                    = get_account_domain(Self, a))
    /\ [][ (Called("get_account_domain") \/ Called("is_vote_account")) =>
             /\ UNCHANGED <<vote_domain_accounts, pending_transitions, current_epoch>>
             /\ Called("get_account_domain") =>
                   last'.result = IF last'.account \in vote_domain_accounts
                                  THEN "Vote" ELSE "User"
         ]_vars

\* get_account_domain has just returned User for an account that has a
\* transition to Vote in the queue, past epoch 0.
C12_Witness ==
    /\ last.op = "get_account_domain"
    /\ last.result = "User"
    /\ current_epoch > 0
    /\ \E i \in 1..Len(pending_transitions) :
          /\ pending_transitions[i].account = last.account
          /\ pending_transitions[i].to_domain = "Vote"

\* ---------------------------------------------------------------- C13
\* C13: apply_epoch_transitions(e) called again right after
\* apply_epoch_transitions(e) is a no-op: vote set, queue and epoch are the
\* same before and after the second call.
C13_ApplyIdempotent ==
    [][ /\ Called("apply_epoch_transitions") =>
             apply_epoch_transitions(Self', last'.epoch) = Self'
        /\ (last.op = "apply_epoch_transitions"
               /\ Called("apply_epoch_transitions")
               /\ last'.epoch = last.epoch) =>
             UNCHANGED <<vote_domain_accounts, pending_transitions, current_epoch>>
      ]_vars

\* apply_epoch_transitions(e) has just applied and removed a transition and
\* left another in the queue: the state the second call starts from.
C13_Witness ==
    /\ last.op = "apply_epoch_transitions"
    /\ last.removed = 1
    /\ Len(pending_transitions) = 1
    /\ vote_domain_accounts # {}

\* ---------------------------------------------------------------- C14
\* The scenario of C14 schedules at epoch 0, so the transition carries
\* scheduled_epoch = 1, and then skips epoch 1; on the scaled epoch range
\* its apply_epoch_transitions(5) is a call that passes any epoch past 1.
\* t is in the queue q.
InQueue(q, t) == \E i \in 1..Len(q) : q[i] = t

\* C14 as claimed: once the epoch has skipped past a transition scheduled
\* for epoch 1 whose account is in the User domain, the transition is never
\* removed and the account stays User in every later state.
C14_StuckForever ==
    [][ \A i \in 1..Len(pending_transitions) :
          LET t == pending_transitions[i] IN
          (t.scheduled_epoch = 1 /\ current_epoch > 1
             /\ get_account_domain(Self, t.account) = "User") =>
             /\ InQueue(pending_transitions', t)
             /\ get_account_domain(Self', t.account) = "User"
      ]_vars

\* C14 amended: a transition scheduled for epoch 1 whose account is in the
\* User domain is neither applied nor removed by a call that passes another
\* epoch, and it stays in the queue with its account User for as long as
\* neither apply_epoch_transitions(1) nor add_to_vote_domain for its account
\* is called.
C14_StuckUntilExactEpochOrAdd ==
    [][ \A i \in 1..Len(pending_transitions) :
          LET t == pending_transitions[i] IN
          (/\ t.scheduled_epoch = 1
           /\ get_account_domain(Self, t.account) = "User"
           /\ ~ (Called("apply_epoch_transitions") /\ last'.epoch = 1)
           /\ ~ (Called("add_to_vote_domain") /\ last'.account = t.account)) =>
             /\ InQueue(pending_transitions', t)
             /\ get_account_domain(Self', t.account) = "User"
      ]_vars

\* The scenario's state: a transition from User scheduled at epoch 0 is the
\* only one in the queue, and a call passing an epoch past 1 has just left
\* it there, with no account in the vote set.
C14_Witness ==
    /\ last.op = "apply_epoch_transitions"
    /\ last.epoch > 1
    /\ last.removed = 0
    /\ current_epoch = last.epoch
    /\ Len(pending_transitions) = 1
    /\ pending_transitions[1].scheduled_epoch = 1
    /\ pending_transitions[1].from_domain = "User"
    /\ vote_domain_accounts = {}

\* ------------------------------------------- unserialised scheduling calls
\* schedule_domain_transition taken as two steps, with other callers free
\* to run between them.  First step: the duplicate check.  A call that
\* finds a pending transition returns Err; one that finds none remembers
\* its arguments (and how long the queue was) and goes on to the push.
ScheduleCheck(t, account, from, to) ==
    /\ calls[t].pc = "idle"
    /\ UNCHANGED <<vote_domain_accounts, pending_transitions, current_epoch>>
    /\ IF AnyPending(pending_transitions, account)
       THEN /\ UNCHANGED calls
            /\ last' = [Call("schedule_domain_transition", account, from, to, 0, "Err", 0)
                           EXCEPT !.error = DuplicateError(account)]
       ELSE /\ calls' = [calls EXCEPT ![t] =
                            [pc |-> "checked", account |-> account, from |-> from,
                             to |-> to, seen |-> Len(pending_transitions)]]
            /\ UNCHANGED last

\* Second step: the push of the new record, then the return.
SchedulePush(t, overflow_checks) ==
    /\ calls[t].pc = "checked"
    /\ calls' = [calls EXCEPT ![t] = Idle]
    /\ UNCHANGED <<vote_domain_accounts, current_epoch>>
    /\ LET next == EpochPlusOne(current_epoch, overflow_checks) IN
       IF next.panic
       THEN /\ UNCHANGED pending_transitions
            /\ last' = Call("schedule_domain_transition", calls[t].account,
                            calls[t].from, calls[t].to, 0, "Panic", 0)
       ELSE /\ pending_transitions' =
                  Append(pending_transitions,
                         DomainTransition(calls[t].account, calls[t].from,
                                          calls[t].to, next.value))
            /\ last' = Call("schedule_domain_transition", calls[t].account,
                            calls[t].from, calls[t].to, 0, "Ok", 0)

NextConcurrent ==
    \/ \E t \in Callers, account \in Accounts, from \in ExecutionDomain,
          to \in ExecutionDomain : ScheduleCheck(t, account, from, to)
    \/ \E t \in Callers, overflow_checks \in BOOLEAN : SchedulePush(t, overflow_checks)

SpecConcurrent == Init /\ [][NextConcurrent]_vars

\* ---------------------------------------------------------------- C15
\* How many transitions of q are for the account.
PendingCount(q, account) ==
    Cardinality({i \in 1..Len(q) : q[i].account = account})

\* C15: with the check and the push of schedule_domain_transition as two
\* steps and no mutual exclusion, an account can get two pending
\* transitions (the witness), and only by interleaving: the step that makes
\* the second one is the push of a call whose check ran before another
\* call's push for the same account.  A call whose check and push run with
\* nothing in between never makes one; an account never has more pending
\* transitions than there are callers.
C15_DuplicateOnlyByInterleaving ==
    /\ [](\A a \in Accounts :
            PendingCount(pending_transitions, a) <= Cardinality(Callers))
    /\ [][ \A a \in Accounts :
             (PendingCount(pending_transitions, a) <= 1
                /\ PendingCount(pending_transitions', a) > 1) =>
                \E t \in Callers :
                    /\ calls[t].pc = "checked" /\ calls'[t].pc = "idle"
                    /\ calls[t].account = a
                    /\ \E i \in (calls[t].seen + 1)..Len(pending_transitions) :
                          pending_transitions[i].account = a
         ]_vars

\* Two transitions are pending for the same account.
C15_Witness ==
    \E a \in Accounts : PendingCount(pending_transitions, a) = 2

\* ---------------------------------------------------------------- C16
\* No call has returned one of the two error kinds the registry only
\* declares.
OnlyDeclaredKindsUnused ==
    last.error.kind \notin {"CrossDomainAccess", "UnauthorizedDomainAccess"}

\* C16 as claimed: a duplicate scheduling call returns
\* InvalidDomainTransition with the account passed and the reason
\* "already scheduled for this epoch"; no operation returns
\* CrossDomainAccess or UnauthorizedDomainAccess.
C16_ErrorReasonAsSpecified ==
    /\ []OnlyDeclaredKindsUnused
    /\ [][ (Called("schedule_domain_transition") /\ last'.result = "Err") =>
             last'.error = InvalidDomainTransition(last'.account,
                                                   "already scheduled for this epoch")
         ]_vars

\* C16 amended: the reason is the string of the code, "Transition already
\* scheduled for this epoch"; the kind and the account are as claimed, a
\* call that does not fail returns no error, and no operation returns
\* CrossDomainAccess or UnauthorizedDomainAccess.
C16_ErrorReasonOfCode ==
    /\ []OnlyDeclaredKindsUnused
    /\ [][ /\ (Called("schedule_domain_transition") /\ last'.result = "Err") =>
                /\ last'.error.kind = "InvalidDomainTransition"
                /\ last'.error.account = last'.account
                /\ last'.error.reason = "Transition already scheduled for this epoch"
           /\ last'.result # "Err" => last'.error.kind = "none"
         ]_vars

\* A duplicate call has just returned InvalidDomainTransition for the
\* account it was passed, while the other account has a transition too.
C16_Witness ==
    /\ last.op = "schedule_domain_transition"
    /\ last.result = "Err"
    /\ last.error.kind = "InvalidDomainTransition"
    /\ last.error.account = last.account
    /\ Len(pending_transitions) = 2
    /\ pending_transitions[2].account # last.account

\* ---------------------------------------------------------------- C17
\* C17: the from argument is recorded but never validated: scheduling
\* succeeds for every from/to pair whenever no transition is pending for
\* the account, and when a transition is applied the resulting membership
\* is decided by to_domain alone.
C17_FromNeverValidated ==
    [][ /\ (Called("schedule_domain_transition")
              /\ ~ \E i \in 1..Len(pending_transitions) :
                    pending_transitions[i].account = last'.account) =>
             /\ last'.result = "Ok"
             /\ Len(pending_transitions') = Len(pending_transitions) + 1
             /\ pending_transitions'[Len(pending_transitions')].from_domain = last'.from
        /\ Called("apply_epoch_transitions") =>
             \A i \in 1..Len(pending_transitions) :
                 LET t == pending_transitions[i] IN
                 t.scheduled_epoch = last'.epoch =>
                    (t.account \in vote_domain_accounts' <=> t.to_domain = "Vote")
      ]_vars

\* ------------------------------------------- epochs advancing one by one
\* The epoch-boundary caller passes exactly current_epoch + 1; at u64::MAX
\* no u64 is current_epoch + 1, so no such call can be made there.
NextSequential ==
    \/ \E pubkey \in Accounts : AddToVoteDomain(pubkey) /\ UNCHANGED calls
    \/ \E account \in Accounts, from \in ExecutionDomain, to \in ExecutionDomain,
          overflow_checks \in BOOLEAN :
            ScheduleDomainTransition(account, from, to, overflow_checks)
              /\ UNCHANGED calls
    \/ \E new_epoch \in Epochs :
          /\ new_epoch = current_epoch + 1
          /\ ApplyEpochTransitions(new_epoch)
          /\ UNCHANGED calls

SpecSequential == Init /\ [][NextSequential]_vars

\* ---------------------------------------------------------------- C18
\* C18: when every apply_epoch_transitions call passes current_epoch + 1,
\* every pending transition has scheduled_epoch = current_epoch + 1 (none is
\* stuck), so the next apply call applies and removes it: the queue is empty
\* right after each apply call.
C18_NextApplyDrainsQueue ==
    /\ \A i \in 1..Len(pending_transitions) :
          pending_transitions[i].scheduled_epoch = current_epoch + 1
    /\ last.op = "apply_epoch_transitions" => pending_transitions = <<>>

\* ------------------------------------------------ epochs never going back
\* The epoch-boundary caller never passes an epoch below the current one.
NextForward ==
    \/ \E pubkey \in Accounts : AddToVoteDomain(pubkey) /\ UNCHANGED calls
    \/ \E account \in Accounts, from \in ExecutionDomain, to \in ExecutionDomain,
          overflow_checks \in BOOLEAN :
            ScheduleDomainTransition(account, from, to, overflow_checks)
              /\ UNCHANGED calls
    \/ \E new_epoch \in Epochs :
          /\ new_epoch >= current_epoch
          /\ ApplyEpochTransitions(new_epoch)
          /\ UNCHANGED calls

SpecForward == Init /\ [][NextForward]_vars

\* ---------------------------------------------------------------- C19
\* C19: while apply_epoch_transitions is only passed epochs >= the current
\* one, a pending transition whose scheduled_epoch is below the current
\* epoch stays in the queue and stays behind; every scheduling call for its
\* account fails with InvalidDomainTransition, and the account's membership
\* changes only in an add_to_vote_domain call for it.
C19_StuckBlocksAccount ==
    [][ \A i \in 1..Len(pending_transitions) :
          LET t == pending_transitions[i] IN
          t.scheduled_epoch < current_epoch =>
             /\ InQueue(pending_transitions', t)
             /\ t.scheduled_epoch < current_epoch'
             /\ (Called("schedule_domain_transition") /\ last'.account = t.account) =>
                   /\ last'.result = "Err"
                   /\ last'.error.kind = "InvalidDomainTransition"
             /\ (t.account \in vote_domain_accounts) # (t.account \in vote_domain_accounts') =>
                   (Called("add_to_vote_domain") /\ last'.account = t.account)
      ]_vars

\* A scheduling call has just been rejected for an account whose pending
\* transition was skipped past, after a later apply call left it there.
C19_Witness ==
    /\ last.op = "schedule_domain_transition"
    /\ last.result = "Err"
    /\ current_epoch = U64Max
    /\ \E i \in 1..Len(pending_transitions) :
          /\ pending_transitions[i].account = last.account
          /\ pending_transitions[i].scheduled_epoch = 1
          /\ pending_transitions[i].to_domain = "Vote"
    /\ get_account_domain(Self, last.account) = "User"

\* ---------------------------------------------------------------- C20
\* C20: at every current epoch of the u64 range, u64::MAX included, a
\* successful schedule_domain_transition records a scheduled_epoch greater
\* than the current epoch: current_epoch + 1 neither overflows (panics) nor
\* wraps to 0.
C20_ScheduledEpochAhead ==
    [][ Called("schedule_domain_transition") =>
          /\ last'.result # "Panic"
          /\ last'.result = "Ok" =>
                pending_transitions'[Len(pending_transitions')].scheduled_epoch
                  > current_epoch
      ]_vars

====
